---- MODULE Spec2Model ----
(***************************************************************************)
(* A model of the two scripts of the repository:                           *)
(*   benchmarks/bm-analysis.py            the benchmark driver             *)
(*   train_cnn/tf2-train-cnn-cifar-v1.py  the training runner              *)
(* Text is a sequence of one-character strings, so that replace, finditer, *)
(* split, strip and startswith are computed as Python computes them.       *)
(***************************************************************************)
EXTENDS Integers, Sequences, FiniteSets, TLC

VARIABLES
    pc,                 \* position of the benchmark driver
    max_cpus_per_task,  \* args.max_cpus_per_task
    cpus,               \* main's cpus / run_benchmark's cpus argument
    tasksRun,           \* main's tasksRun
    partition,          \* run_benchmark's partition argument
    caller,             \* the call site run_benchmark returns to
    template,           \* content of the template file, or Missing
    scriptfiles,        \* generated scripts: cpus -> content
    env,                \* names of the environment variables that are set
    process,            \* the sbatch process started by Popen
    submissions,        \* the Popen(["sbatch", script]) calls made, in order
    jobs,               \* jobs the scheduler accepted from this run, by job id
    queue,              \* job ids squeue lists for the user
    files,              \* names of the files in the working directory
    lastPoll,           \* value of the latest countbmsrunning() call
    listing,            \* raw squeue output handed to countbmsrunning()
    scriptlist,         \* main's scriptlist
    idx,                \* position of the for loop over scriptlist
    prefixed,           \* name of the output file that is open
    nread,              \* lines read from it
    seen,               \* markers line.find located in the lines read
    realnum,            \* main's realnum
    sysnum,             \* main's sysnum
    usernum,            \* main's usernum
    benchmarkdict,      \* main's benchmarkdict, in insertion order
    outfile,            \* rows of the CSV file
    err,                \* the exception that ended the driver
    tpc,                \* position of each training run
    targs,              \* args of each training run
    tenv,               \* what the training runs find on the machine
    model,              \* where each run's model came from
    artifact            \* the path each run saved its model to

vars == <<pc, max_cpus_per_task, cpus, tasksRun, partition, caller, template,
          scriptfiles, env, process, submissions, jobs, queue, files,
          lastPoll, listing, scriptlist, idx, prefixed, nread, seen, realnum, sysnum, usernum,
          benchmarkdict, outfile, err,
          tpc, targs, tenv, model, artifact>>

----------------------------------------------------------------------------
(* Bounds of the model. *)

\* largest --max-cpus-per-task tried
MaxArg == 65

\* --max-cpus-per-task is tried from FirstCpus - BelowFirst on
BelowFirst == 2

\* jobs of the same user, submitted by someone else, that squeue may list
MaxForeign == 1

\* lines of a job's output file
MaxLines == 3

\* pieces a template file is put together from
MaxChunks == 3

\* lines of a queue listing handed to countbmsrunning
MaxListing == 3

----------------------------------------------------------------------------
(* Python's str operations on sequences of characters. *)

\* the one element of a set of one element. An operator's argument is
\* evaluated where it is used; Only({F(v) : v \in {e}}) evaluates e once
Only(S) == CHOOSE x \in S : TRUE

StartsWith(s, prefix) ==
    /\ Len(prefix) <= Len(s)
    /\ SubSeq(s, 1, Len(prefix)) = prefix

\* is old found in s at position i
At(s, old, i) ==
    /\ i + Len(old) - 1 <= Len(s)
    /\ SubSeq(s, i, i + Len(old) - 1) = old

\* s.find(old) != -1
Contains(s, old) == \E i \in 1..Len(s) : At(s, old, i)

\* the first position from i on at which old is found in s, 0 when none
FindFrom(s, old, i) ==
    LET hits == {j \in i..(Len(s) - Len(old) + 1) : At(s, old, j)}
    IN  IF hits = {} THEN 0 ELSE CHOOSE j \in hits : \A k \in hits : j <= k

RECURSIVE ReplaceFrom(_, _, _, _)
ReplaceFrom(s, old, new, i) ==
    LET j == FindFrom(s, old, i)
    IN  IF j = 0 THEN SubSeq(s, i, Len(s))
        ELSE SubSeq(s, i, j - 1) \o new \o ReplaceFrom(s, old, new, j + Len(old))

\* s.replace(old, new): every occurrence, left to right, without overlap
Replace(s, old, new) == Only({ReplaceFrom(v, old, new, 1) : v \in {s}})

RECURSIVE FindIterFrom(_, _, _)
FindIterFrom(s, pat, i) ==
    LET j == FindFrom(s, pat, i)
    IN  IF j = 0 THEN 0 ELSE 1 + FindIterFrom(s, pat, j + Len(pat))

\* len(list(re.finditer(pat, s))) for a pattern without special characters
FindIterCount(s, pat) == Only({FindIterFrom(v, pat, 1) : v \in {s}})

RECURSIVE SplitFrom(_, _, _)
SplitFrom(s, sep, i) ==
    LET j == FindFrom(s, sep, i)
    IN  IF j = 0 THEN <<SubSeq(s, i, Len(s))>>
        ELSE <<SubSeq(s, i, j - 1)>> \o SplitFrom(s, sep, j + Len(sep))

\* s.split(sep)
Split(s, sep) == Only({SplitFrom(v, sep, 1) : v \in {s}})

\* s.strip(ch) for a single character ch
Strip(s, ch) ==
    LET keep == {i \in 1..Len(s) : s[i] # ch}
        first == CHOOSE i \in keep : \A j \in keep : i <= j
        last == CHOOSE i \in keep : \A j \in keep : j <= i
    IN  IF keep = {} THEN <<>> ELSE SubSeq(s, first, last)

\* the concatenation of ss[lo], ..., ss[hi], by halves
RECURSIVE FlattenFrom(_, _, _)
FlattenFrom(ss, lo, hi) ==
    IF lo > hi THEN <<>>
    ELSE IF lo = hi THEN ss[lo]
    ELSE LET mid == (lo + hi) \div 2
         IN  FlattenFrom(ss, lo, mid) \o FlattenFrom(ss, mid + 1, hi)

Flatten(ss) == Only({FlattenFrom(v, 1, Len(v)) : v \in {ss}})

DigitChars == <<"0", "1", "2", "3", "4", "5", "6", "7", "8", "9">>

RECURSIVE NatStr(_)
NatStr(n) ==
    IF n < 10 THEN <<DigitChars[n + 1]>>
    ELSE NatStr(n \div 10) \o <<DigitChars[(n % 10) + 1]>>

\* str(n) for an int n
Str(n) == IF n < 0 THEN <<"-">> \o NatStr(-n) ELSE NatStr(n)

\* str(b) for a bytes object b without quote characters: b'...' with each
\* newline written as the two characters backslash, n
Escape(b) ==
    Flatten([i \in 1..Len(b) |-> IF b[i] = "\n" THEN <<"\\", "n">> ELSE <<b[i]>>])

BytesStr(b) == <<"b", "'">> \o Escape(b) \o <<"'">>

----------------------------------------------------------------------------
(* bm-analysis.py: the pure parts. *)

PH_CPUS == <<"[", "|", "{", "C", "P", "U", "S", "}", "|", "]">>

PH_PARTITION ==
    <<"[", "|", "{", "P", "A", "R", "T", "I", "T", "I", "O", "N", "}", "|", "]">>

Shared == <<"s", "h", "a", "r", "e", "d">>

Compute == <<"c", "o", "m", "p", "u", "t", "e">>

\* create_benchmark without its second replace
create_benchmark_cpus_only(tmpl, c, part) == Replace(tmpl, PH_CPUS, Str(c))

\* the text create_benchmark writes to the script file
create_benchmark(tmpl, c, part) ==
    Replace(Replace(tmpl, PH_CPUS, Str(c)), PH_PARTITION, part)

Needle == <<"t", "f", "2", "-", "t", "r", "a", "i", "n", "-", "c", "n", "n">>

\* processnames() when squeue prints out
processnames(out) == BytesStr(out)

\* countbmsrunning counting the lines that hold the needle
countbmsrunning_lines(out) ==
    LET lines == Split(processnames(out), <<"\\", "n">>)
    IN  Cardinality({i \in 1..Len(lines) : Contains(lines[i], Needle)})

\* countbmsrunning() when squeue prints out
countbmsrunning(out) == FindIterCount(processnames(out), Needle)

\* the lines of main's scriptlist when squeue prints out
ScriptList(out) ==
    LET stripped(lines) == [i \in 1..Len(lines) |-> Strip(Strip(lines[i], "'"), "b")]
        match(x) == StartsWith(x, Needle)
    IN  Only({SelectSeq(stripped(lines), match) :
                lines \in {Split(processnames(out), <<"\\", "n">>)}})

\* squeue -o "%j.o%A": one line for a job, its name and its id
JobLine(id) == Needle \o <<".", "o">> \o Str(id)

SqueueHeader == <<"N", "A", "M", "E", ".", "o", "J", "O", "B", "I", "D">>

RECURSIVE SortedIds(_)
SortedIds(S) ==
    IF S = {} THEN <<>>
    ELSE LET m == CHOOSE x \in S : \A y \in S : x <= y
         IN  <<m>> \o SortedIds(S \ {m})

\* the bytes squeue prints when the jobs q are listed
SqueueOutput(q) ==
    LET ids == SortedIds(q)
    IN  SqueueHeader \o <<"\n">>
          \o Flatten([i \in 1..Len(ids) |-> JobLine(ids[i]) \o <<"\n">>])

(* A line of an output file: the markers line.find locates in it, and what  *)
(* float() makes of the line once a marker and the newline are removed.     *)
(* No marker overlaps another and each holds a letter no float literal      *)
(* holds, so float() raises on a line in which two markers are found.       *)
Markers == {"real", "sys", "user"}

Float(line, m) ==
    IF line.found = {m} /\ line.parses
    THEN [ok |-> TRUE, num |-> line.num]
    ELSE [ok |-> FALSE, num |-> 0]

\* lines 113-118 for one line; st.ok turns FALSE when float() raises
ScanLine(st, line) ==
    LET step(s, m) ==
            IF ~s.ok \/ m \notin line.found THEN s
            ELSE LET f == Float(line, m)
                 IN  IF f.ok THEN [s EXCEPT ![m] = f.num]
                     ELSE [s EXCEPT !.ok = FALSE]
    IN  step(step(step(st, "real"), "sys"), "user")

\* the test of line 119 with or written for and
CompleteAny(r, s, u) == r # -1 \/ s # -1 \/ u # -1

\* line 119
Complete(r, s, u) == r # -1 /\ s # -1 /\ u # -1

\* benchmarkdict[k] = v, keeping the insertion order of a dict
DictSet(d, k, v) ==
    IF \E i \in 1..Len(d) : d[i].name = k
    THEN [i \in 1..Len(d) |-> IF d[i].name = k THEN [name |-> k, val |-> v] ELSE d[i]]
    ELSE Append(d, [name |-> k, val |-> v])

\* lines 124-126
CsvRows(d) ==
    <<"cores,real,sys,user">> \o [i \in 1..Len(d) |-> <<d[i].name, d[i].val>>]

----------------------------------------------------------------------------
(* bm-analysis.py: the driver, the sbatch process and the scheduler. *)

FirstCpus == 32

CpusStep == 16

EnvNames == {"SLURM_SUBMIT_DIR", "USER"}

\* a template with one placeholder of each kind; the file is not in src/
DefaultTemplate ==
    [exists |-> TRUE,
     text |-> <<"-", "c", " ">> \o PH_CPUS \o <<" ", "-", "p", " ">> \o PH_PARTITION]

\* no template file: open() raises
Missing == [exists |-> FALSE, text |-> <<>>]

ArgValues == (FirstCpus - BelowFirst)..MaxArg

ForeignIds == {100 - k : k \in 1..MaxForeign}

\* the lines an output file may hold
FileLines ==
    {[found |-> {m}, parses |-> TRUE, num |-> 7] : m \in Markers}
      \cup {[found |-> {"user"}, parses |-> TRUE, num |-> -1],
            [found |-> {"real"}, parses |-> FALSE, num |-> 0],
            [found |-> {}, parses |-> FALSE, num |-> 0]}

cfgv == <<max_cpus_per_task, template, env>>

schedv == <<process, jobs, queue, files>>

scanv == <<prefixed, nread, seen, realnum, sysnum, usernum>>

collectv == <<scriptlist, idx, scanv, benchmarkdict, outfile>>

trainv == <<tpc, targs, tenv, model, artifact>>

Crash(e) == pc' = "crashed" /\ err' = e

\* lines 59-72
MainStart ==
    /\ pc = "main"
    /\ pc' = "sweep"
    /\ cpus' = FirstCpus
    /\ tasksRun' = 0
    /\ UNCHANGED <<partition, caller, scriptfiles, submissions, lastPoll, listing, err>>
    /\ UNCHANGED <<cfgv, schedv, collectv, trainv>>

\* the loop's test with <= written for <
SweepTestInclusive(c, m) == c <= m

\* line 73, the loop's test
SweepTest(c, m) == c < m

\* lines 73-74: the loop's test and the call of run_benchmark(cpus, args)
SweepLoop ==
    /\ pc = "sweep"
    /\ IF SweepTest(cpus, max_cpus_per_task)
       THEN pc' = "rb_check" /\ partition' = Shared /\ caller' = "loop"
       ELSE pc' = "sweep_end" /\ UNCHANGED <<partition, caller>>
    /\ UNCHANGED <<cpus, tasksRun, scriptfiles, submissions, lastPoll, listing, err>>
    /\ UNCHANGED <<cfgv, schedv, collectv, trainv>>

\* lines 77-78: the call of run_benchmark(cpus, args, partition="compute")
SweepEnd ==
    /\ pc = "sweep_end"
    /\ IF cpus = max_cpus_per_task
       THEN pc' = "rb_check" /\ partition' = Compute /\ caller' = "final"
       ELSE pc' = "attempted" /\ UNCHANGED <<partition, caller>>
    /\ UNCHANGED <<cpus, tasksRun, scriptfiles, submissions, lastPoll, listing, err>>
    /\ UNCHANGED <<cfgv, schedv, collectv, trainv>>

\* line 35, the test that makes run_benchmark return at once
TooManyCpus(c, m) == c > m

\* lines 35-36 of run_benchmark: the early return, or create_benchmark
RbCheck ==
    /\ pc = "rb_check"
    /\ IF TooManyCpus(cpus, max_cpus_per_task)
       THEN pc' = "rb_ret" /\ UNCHANGED <<scriptfiles, err>>
       ELSE IF ~template.exists
       THEN Crash("FileNotFoundError") /\ UNCHANGED scriptfiles
       ELSE /\ scriptfiles' =
                  (cpus :> create_benchmark(template.text, cpus, partition)) @@ scriptfiles
            /\ pc' = "rb_popen"
            /\ UNCHANGED err
    /\ UNCHANGED <<cpus, tasksRun, partition, caller, submissions, lastPoll, listing>>
    /\ UNCHANGED <<cfgv, schedv, collectv, trainv>>

\* lines 37-38 of run_benchmark: the script's path and Popen(["sbatch", script])
RbPopen ==
    /\ pc = "rb_popen"
    /\ IF "SLURM_SUBMIT_DIR" \notin env
       THEN Crash("KeyError") /\ UNCHANGED <<process, submissions>>
       ELSE /\ process' = "running"
            /\ submissions' = Append(submissions, [cpus |-> cpus, partition |-> partition])
            /\ pc' = "rb_wait"
            /\ UNCHANGED err
    /\ UNCHANGED <<cpus, tasksRun, partition, caller, scriptfiles, lastPoll, listing>>
    /\ UNCHANGED <<cfgv, jobs, queue, files, collectv, trainv>>

\* the loop of line 39 not waiting at all
PolledAlways(p) == TRUE

\* line 39: process.poll() is not None
Polled(p) == p = "exited"

\* lines 39-41 of run_benchmark: the loop ends once the sbatch process has exited
RbWait ==
    /\ pc = "rb_wait"
    /\ Polled(process)
    /\ pc' = "rb_ret"
    /\ UNCHANGED <<cpus, tasksRun, partition, caller, scriptfiles, submissions,
                   lastPoll, listing, err>>
    /\ UNCHANGED <<cfgv, schedv, collectv, trainv>>

\* lines 75-76, after the call in the loop returned
LoopReturn ==
    /\ pc = "rb_ret"
    /\ caller = "loop"
    /\ tasksRun' = tasksRun + 1
    /\ cpus' = cpus + CpusStep
    /\ pc' = "sweep"
    /\ UNCHANGED <<partition, caller, scriptfiles, submissions, lastPoll, listing, err>>
    /\ UNCHANGED <<cfgv, schedv, collectv, trainv>>

\* line 79, after the call on the compute partition returned
FinalReturn ==
    /\ pc = "rb_ret"
    /\ caller = "final"
    /\ tasksRun' = tasksRun + 1
    /\ pc' = "attempted"
    /\ UNCHANGED <<cpus, partition, caller, scriptfiles, submissions, lastPoll,
                   listing, err>>
    /\ UNCHANGED <<cfgv, schedv, collectv, trainv>>

\* lines 81-83: processnames() reads os.environ["USER"]
Attempted ==
    /\ pc = "attempted"
    /\ IF "USER" \notin env
       THEN Crash("KeyError")
       ELSE pc' = "waitstart" /\ UNCHANGED err
    /\ UNCHANGED <<cpus, tasksRun, partition, caller, scriptfiles, submissions,
                   lastPoll, listing>>
    /\ UNCHANGED <<cfgv, schedv, collectv, trainv>>

\* line 85, the test that keeps the driver waiting for its jobs to show up
StartTest(n, t) == n # t

\* line 85: one poll of the queue
WaitStart ==
    /\ pc = "waitstart"
    /\ lastPoll' = countbmsrunning(SqueueOutput(queue))
    /\ pc' = IF StartTest(lastPoll', tasksRun) THEN "waitstart_sleep" ELSE "started"
    /\ UNCHANGED <<cpus, tasksRun, partition, caller, scriptfiles, submissions,
                   listing, err>>
    /\ UNCHANGED <<cfgv, schedv, collectv, trainv>>

\* line 86: time.sleep(1)
WaitStartSleep ==
    /\ pc = "waitstart_sleep"
    /\ pc' = "waitstart"
    /\ UNCHANGED <<cpus, tasksRun, partition, caller, scriptfiles, submissions,
                   lastPoll, listing, err>>
    /\ UNCHANGED <<cfgv, schedv, collectv, trainv>>

\* lines 88-96: the listing scriptlist is made of
Listing ==
    /\ pc = "started"
    /\ scriptlist' = ScriptList(SqueueOutput(queue))
    /\ pc' = "wfc_first"
    /\ UNCHANGED <<cpus, tasksRun, partition, caller, scriptfiles, submissions,
                   lastPoll, listing, err>>
    /\ UNCHANGED <<cfgv, schedv, idx, scanv, benchmarkdict, outfile, trainv>>

\* line 52 of wait_for_benchmark_completion: a poll that is only printed
WfcFirst ==
    /\ pc = "wfc_first"
    /\ lastPoll' = countbmsrunning(SqueueOutput(queue))
    /\ pc' = "wfc_loop"
    /\ UNCHANGED <<cpus, tasksRun, partition, caller, scriptfiles, submissions,
                   listing, err>>
    /\ UNCHANGED <<cfgv, schedv, collectv, trainv>>

\* the test of line 53 letting one job pass as none
CompletionTestOffByOne(n) == n > 1

\* line 53, the test that keeps wait_for_benchmark_completion waiting
CompletionTest(n) == n # 0

\* line 53: the poll that decides, and line 100 when it is zero
WfcLoop ==
    /\ pc = "wfc_loop"
    /\ lastPoll' = countbmsrunning(SqueueOutput(queue))
    /\ pc' = IF CompletionTest(lastPoll') THEN "wfc_sleep" ELSE "completed"
    /\ UNCHANGED <<cpus, tasksRun, partition, caller, scriptfiles, submissions,
                   listing, err>>
    /\ UNCHANGED <<cfgv, schedv, collectv, trainv>>

\* lines 54-55: time.sleep(15) and a poll that is only printed
WfcSleep ==
    /\ pc = "wfc_sleep"
    /\ lastPoll' = countbmsrunning(SqueueOutput(queue))
    /\ pc' = "wfc_loop"
    /\ UNCHANGED <<cpus, tasksRun, partition, caller, scriptfiles, submissions,
                   listing, err>>
    /\ UNCHANGED <<cfgv, schedv, collectv, trainv>>

\* lines 100-102
Completed ==
    /\ pc = "completed"
    /\ benchmarkdict' = <<>>
    /\ idx' = 1
    /\ pc' = "collect"
    /\ UNCHANGED <<cpus, tasksRun, partition, caller, scriptfiles, submissions,
                   lastPoll, listing, err>>
    /\ UNCHANGED <<cfgv, schedv, scriptlist, scanv, outfile, trainv>>

\* lines 104-110, one turn of the for loop: the file is found and opened.
\* os.listdir gives no order, so plist[0] is any of the matching files
OpenFile ==
    /\ pc = "collect"
    /\ idx <= Len(scriptlist)
    /\ LET plist == {f \in files : StartsWith(f, scriptlist[idx])}
       IN  IF plist = {}
           THEN Crash("IndexError") /\ UNCHANGED scanv
           ELSE /\ prefixed' \in plist
                /\ nread' = 0
                /\ seen' = {}
                /\ realnum' = -1
                /\ sysnum' = -1
                /\ usernum' = -1
                /\ pc' = "scan"
                /\ UNCHANGED err
    /\ UNCHANGED <<cpus, tasksRun, partition, caller, scriptfiles, submissions,
                   lastPoll, listing>>
    /\ UNCHANGED <<cfgv, schedv, scriptlist, idx, benchmarkdict, outfile, trainv>>

\* lines 112-118: the file yields one more line
ReadLine ==
    /\ pc = "scan"
    /\ nread < MaxLines
    /\ \E line \in FileLines :
         LET st == ScanLine([real |-> realnum, sys |-> sysnum, user |-> usernum,
                             ok |-> TRUE], line)
         IN  /\ nread' = nread + 1
             /\ seen' = seen \cup line.found
             /\ realnum' = st.real
             /\ sysnum' = st.sys
             /\ usernum' = st.user
             /\ IF st.ok THEN UNCHANGED <<pc, err>> ELSE Crash("ValueError")
    /\ UNCHANGED <<cpus, tasksRun, partition, caller, scriptfiles, submissions,
                   lastPoll, listing>>
    /\ UNCHANGED <<cfgv, schedv, scriptlist, idx, prefixed, benchmarkdict, outfile,
                   trainv>>

\* lines 119-120: the file is at its end
EndOfFile ==
    /\ pc = "scan"
    /\ benchmarkdict' =
          IF Complete(realnum, sysnum, usernum)
          THEN DictSet(benchmarkdict, prefixed, <<realnum, sysnum, usernum>>)
          ELSE benchmarkdict
    /\ idx' = idx + 1
    /\ pc' = "collect"
    /\ UNCHANGED <<cpus, tasksRun, partition, caller, scriptfiles, submissions,
                   lastPoll, listing, err>>
    /\ UNCHANGED <<cfgv, schedv, scriptlist, scanv, outfile, trainv>>

\* lines 122-129
WriteCsv ==
    /\ pc = "collect"
    /\ idx > Len(scriptlist)
    /\ outfile' = CsvRows(benchmarkdict)
    /\ pc' = "done"
    /\ UNCHANGED <<cpus, tasksRun, partition, caller, scriptfiles, submissions,
                   lastPoll, listing, err>>
    /\ UNCHANGED <<cfgv, schedv, scriptlist, idx, scanv, benchmarkdict, trainv>>

\* sbatch hands the job to the scheduler
SbatchAccept ==
    /\ process = "running"
    /\ jobs' = Append(jobs, [cpus |-> cpus, partition |-> partition])
    /\ queue' = queue \cup {Len(jobs) + 1}
    /\ process' = "accepted"
    /\ UNCHANGED <<pc, cpus, tasksRun, partition, caller, scriptfiles, submissions,
                   lastPoll, listing, err, files>>
    /\ UNCHANGED <<cfgv, collectv, trainv>>

\* sbatch exits after the job was accepted
SbatchExit ==
    /\ process = "accepted"
    /\ process' = "exited"
    /\ UNCHANGED <<pc, cpus, tasksRun, partition, caller, scriptfiles, submissions,
                   lastPoll, listing, err, jobs, queue, files>>
    /\ UNCHANGED <<cfgv, collectv, trainv>>

\* sbatch exits with an error and no job
SbatchReject ==
    /\ process = "running"
    /\ process' = "exited"
    /\ UNCHANGED <<pc, cpus, tasksRun, partition, caller, scriptfiles, submissions,
                   lastPoll, listing, err, jobs, queue, files>>
    /\ UNCHANGED <<cfgv, collectv, trainv>>

\* a job leaves the queue: it ran and left its output file, or was cancelled
JobLeaves(j, ran) ==
    /\ j \in queue
    /\ queue' = queue \ {j}
    /\ files' = IF ran THEN files \cup {JobLine(j)} ELSE files
    /\ UNCHANGED <<pc, cpus, tasksRun, partition, caller, scriptfiles, submissions,
                   lastPoll, listing, err, process, jobs>>
    /\ UNCHANGED <<cfgv, collectv, trainv>>

JobEnds == \E j \in queue : JobLeaves(j, TRUE)

JobCancelled == \E j \in queue : JobLeaves(j, FALSE)

Driver ==
    \/ MainStart
    \/ SweepLoop
    \/ SweepEnd
    \/ RbCheck
    \/ RbPopen
    \/ RbWait
    \/ LoopReturn
    \/ FinalReturn
    \/ Attempted
    \/ WaitStart
    \/ WaitStartSleep
    \/ Listing
    \/ WfcFirst
    \/ WfcLoop
    \/ WfcSleep
    \/ Completed
    \/ OpenFile
    \/ ReadLine
    \/ EndOfFile
    \/ WriteCsv

TrainIdle ==
    /\ tpc = <<>>
    /\ targs = <<>>
    /\ tenv = <<>>
    /\ model = <<>>
    /\ artifact = <<>>

\* nothing has been done yet
Fresh ==
    /\ tasksRun = 0
    /\ scriptfiles = <<>>
    /\ process = "none"
    /\ submissions = <<>>
    /\ jobs = <<>>
    /\ files = {}
    /\ lastPoll = -1
    /\ scriptlist = <<>>
    /\ idx = 0
    /\ prefixed = <<>>
    /\ nread = 0
    /\ seen = {}
    /\ realnum = -1
    /\ sysnum = -1
    /\ usernum = -1
    /\ benchmarkdict = <<>>
    /\ outfile = <<>>
    /\ err = "none"
    /\ TrainIdle

Init ==
    /\ pc = "main"
    /\ max_cpus_per_task \in ArgValues
    /\ cpus = 0
    /\ partition = <<>>
    /\ caller = "main"
    /\ template \in {DefaultTemplate, Missing}
    /\ env \in SUBSET EnvNames
    /\ queue \in SUBSET ForeignIds
    /\ listing = <<>>
    /\ Fresh

Next ==
    \/ Driver
    \/ SbatchAccept
    \/ SbatchExit
    \/ SbatchReject
    \/ JobEnds
    \/ JobCancelled

Spec == Init /\ [][Next]_vars

----------------------------------------------------------------------------
(* The driver's sweep, its polls and its collection of results (Spec). *)

IsPrefix(a, b) == Len(a) <= Len(b) /\ SubSeq(b, 1, Len(a)) = a

\* the jobs the sweep is to submit for --max-cpus-per-task m
ExpectedSweep(m) ==
    LET n == IF m <= FirstCpus THEN 0 ELSE ((m - FirstCpus - 1) \div CpusStep) + 1
        shared == [i \in 1..n |->
                     [cpus |-> FirstCpus + CpusStep * (i - 1), partition |-> Shared]]
    IN  IF m >= FirstCpus /\ (m - FirstCpus) % CpusStep = 0
        THEN Append(shared, [cpus |-> m, partition |-> Compute])
        ELSE shared

AfterSweep ==
    {"attempted", "waitstart", "waitstart_sleep", "started", "wfc_first",
     "wfc_loop", "wfc_sleep", "completed", "collect", "scan", "done"}

\* C1: the submissions made are, in order, one job on 'shared' for each of
\* 32, 48, 64, ... strictly below the max, then one job on 'compute' at the max
\* if and only if max >= 32 and max - 32 is a multiple of 16, and nothing else:
\* at every moment a prefix of that list, and the whole list once the sweep is over.
C1_SweepSequence ==
    /\ IsPrefix(submissions, ExpectedSweep(max_cpus_per_task))
    /\ pc \in AfterSweep => submissions = ExpectedSweep(max_cpus_per_task)
    /\ \A i \in 1..Len(submissions) - 1 : submissions[i].cpus < submissions[i + 1].cpus

\* the sweep for max = 64 is over: 32 and 48 on shared, 64 on compute
C1_Witness ==
    /\ pc = "attempted"
    /\ max_cpus_per_task = 64
    /\ Len(submissions) = 3
    /\ submissions[2] = [cpus |-> 48, partition |-> Shared]
    /\ submissions[3] = [cpus |-> 64, partition |-> Compute]

\* C2: a row enters benchmarkdict (and so the CSV) only at the end of a file in
\* which all three markers were found; the end of a file missing a marker adds
\* no row and does not end the run, which aborts while scanning only on a line
\* float() rejects; the CSV holds the header and one row per entry.
C2_RowsOnlyForCompleteFiles ==
    /\ [][(benchmarkdict' # benchmarkdict /\ pc # "completed")
            => (pc = "scan" /\ pc' = "collect" /\ seen = Markers)]_vars
    /\ [][(pc = "scan" /\ pc' = "crashed") => nread' = nread + 1]_vars
    /\ [](pc = "done" => Len(outfile) = Len(benchmarkdict) + 1)

\* two files were read, one lacked a marker, and the CSV got the other's row
C2_Witness ==
    /\ pc = "done"
    /\ Len(scriptlist) = 2
    /\ Len(outfile) = 2
    /\ seen # Markers

Reading == {"completed", "collect", "scan", "done"}

Waiting == {"wfc_first", "wfc_loop", "wfc_sleep"}

\* C6: the output files are read only after a poll that returned zero, that poll
\* is made only after the poll of line 85 returned tasksRun, and
\* wait_for_benchmark_completion returns only on a poll of zero.
C6_PollOrder ==
    /\ [](pc \in {"started", "wfc_first"} => lastPoll = tasksRun)
    /\ [](pc \in Reading => lastPoll = 0)
    /\ [][(pc' = "started" /\ pc # "started")
            => (pc = "waitstart" /\ lastPoll' = tasksRun)]_vars
    /\ [][(pc' \in Waiting /\ pc \notin Waiting) => pc = "started"]_vars
    /\ [][(pc' \in Reading /\ pc \notin Reading)
            => (pc = "wfc_loop" /\ lastPoll' = 0)]_vars

\* two jobs were seen in the queue, listed, and a later poll returned zero
C6_Witness ==
    /\ pc = "completed"
    /\ tasksRun = 2
    /\ Len(scriptlist) = 2
    /\ lastPoll = 0

----------------------------------------------------------------------------
(* The driver when nothing goes wrong around it (SpecFair): every variable  *)
(* of the environment is set, the template exists, the user has no other    *)
(* job in the queue, sbatch accepts every job, and every job runs and       *)
(* leaves the queue. The driver, sbatch and the scheduler all keep going.   *)

InitFair ==
    /\ Init
    /\ template = DefaultTemplate
    /\ env = EnvNames
    /\ queue = {}

NextFair ==
    \/ Driver
    \/ SbatchAccept
    \/ SbatchExit
    \/ JobEnds

SpecFair ==
    /\ InitFair
    /\ [][NextFair]_vars
    /\ WF_vars(Driver)
    /\ WF_vars(SbatchAccept)
    /\ WF_vars(SbatchExit)
    /\ WF_vars(JobEnds)

\* C9: the driver eventually reaches 'All benchmarks completed.'
C9_ReachesCompleted == <>(pc = "completed")

AfterListing == Waiting \cup Reading

\* C10: once scriptlist is made it names exactly the jobs this run submitted.
C10_ScriptlistComplete ==
    pc \in AfterListing => scriptlist = [i \in 1..Len(jobs) |-> JobLine(i)]

----------------------------------------------------------------------------
(* run_benchmark called on its own, with any cpus and any maximum (SpecRun). *)

InitRun ==
    /\ pc = "rb_check"
    /\ caller = "direct"
    /\ max_cpus_per_task \in ArgValues
    /\ cpus \in ArgValues
    /\ partition \in {Shared, Compute}
    /\ template \in {DefaultTemplate, Missing}
    /\ env \in SUBSET EnvNames
    /\ queue = {}
    /\ listing = <<>>
    /\ Fresh

NextRun ==
    \/ RbCheck
    \/ RbPopen
    \/ RbWait
    \/ SbatchAccept
    \/ SbatchExit
    \/ SbatchReject
    \/ JobEnds
    \/ JobCancelled

SpecRun == InitRun /\ [][NextRun]_vars

\* C5: a call with cpus above the maximum returns having written no script,
\* started no process and enqueued nothing; otherwise the script is written
\* before the submission is started, one submission is started, and the call
\* returns only after that process has exited.
C5_RunBenchmark ==
    /\ (pc = "rb_ret" /\ cpus > max_cpus_per_task)
         => /\ scriptfiles = <<>>
            /\ process = "none"
            /\ submissions = <<>>
            /\ jobs = <<>>
            /\ queue = {}
    /\ process # "none" => cpus \in DOMAIN scriptfiles
    /\ Len(submissions) <= 1
    /\ (pc = "rb_ret" /\ cpus <= max_cpus_per_task)
         => /\ submissions = <<[cpus |-> cpus, partition |-> partition]>>
            /\ process = "exited"

\* the call has returned, sbatch has exited, and the job is still in the queue
C5_Witness ==
    /\ pc = "rb_ret"
    /\ cpus <= max_cpus_per_task
    /\ process = "exited"
    /\ queue = {1}

----------------------------------------------------------------------------
(* countbmsrunning on any queue listing (SpecCount). *)

\* a name that holds the needle twice
DoubleName == Needle \o <<"-">> \o Needle

ListingLines ==
    {SqueueHeader,
     JobLine(1),
     <<"x", ".", "o", "2">>,
     DoubleName \o <<".", "o", "3">>}

Listings == UNION {[1..n -> ListingLines] : n \in 0..MaxListing}

\* what squeue prints for the lines ls
Printed(ls) == Flatten([i \in 1..Len(ls) |-> ls[i] \o <<"\n">>])

InitCount ==
    /\ pc = "count_call"
    /\ listing \in Listings
    /\ max_cpus_per_task = 0
    /\ cpus = 0
    /\ partition = <<>>
    /\ caller = "direct"
    /\ template = Missing
    /\ env = EnvNames
    /\ queue = {}
    /\ Fresh

\* lines 47-48: one call of countbmsrunning()
CountCall ==
    /\ pc = "count_call"
    /\ lastPoll' = countbmsrunning(Printed(listing))
    /\ pc' = "count_done"
    /\ UNCHANGED <<cpus, tasksRun, partition, caller, scriptfiles, submissions,
                   listing, err>>
    /\ UNCHANGED <<cfgv, schedv, collectv, trainv>>

SpecCount == InitCount /\ [][CountCall]_vars

\* places of the line at which the needle starts
Occurrences(line, x) == Cardinality({k \in 1..Len(line) : At(line, x, k)})

MatchingLines == {i \in 1..Len(listing) : Contains(listing[i], Needle)}

RECURSIVE SumOccurrences(_, _)
SumOccurrences(ls, i) ==
    IF i > Len(ls) THEN 0 ELSE Occurrences(ls[i], Needle) + SumOccurrences(ls, i + 1)

\* C3 as stated: the count is the number of lines that hold "tf2-train-cnn".
C3_CountsLines ==
    pc = "count_done" => lastPoll = Cardinality(MatchingLines)

\* C3 (amended): the count is the number of occurrences of "tf2-train-cnn" in
\* the listing, line by line; it is the number of matching lines when each of
\* them holds the substring once, whatever the other lines are.
C3_CountsOccurrences ==
    pc = "count_done" =>
        /\ lastPoll = SumOccurrences(listing, 1)
        /\ (\A i \in MatchingLines : Occurrences(listing[i], Needle) = 1)
             => lastPoll = Cardinality(MatchingLines)

\* a job line, a line that holds the needle twice and a line without it
C3_Witness ==
    /\ pc = "count_done"
    /\ Len(listing) = 3
    /\ Cardinality(MatchingLines) = 2
    /\ \E i \in 1..3 : ~Contains(listing[i], Needle)
    /\ lastPoll = 3

----------------------------------------------------------------------------
(* create_benchmark on any template, CPU count and partition (SpecTemplate). *)

TemplateChunks ==
    {PH_CPUS,
     PH_PARTITION,
     <<"#">>,
     <<"3">>,
     <<"[", "|", "{", "C", "P", "U">>,
     <<"S", "}", "|", "]">>}

Templates ==
    {Flatten(cs) : cs \in UNION {[1..n -> TemplateChunks] : n \in 0..MaxChunks}}

CpuInputs == {-1, 3, 32}

PartitionInputs == {Shared, Compute, <<>>, PH_CPUS}

InitTemplate ==
    /\ pc = "cb_call"
    /\ template \in {[exists |-> TRUE, text |-> t] : t \in Templates}
    /\ cpus \in CpuInputs
    /\ partition \in PartitionInputs
    /\ max_cpus_per_task = 0
    /\ caller = "direct"
    /\ env = EnvNames
    /\ queue = {}
    /\ listing = <<>>
    /\ Fresh

\* lines 27-31: one call of create_benchmark(cpus, partition)
CreateBenchmark ==
    /\ pc = "cb_call"
    /\ scriptfiles' = (cpus :> create_benchmark(template.text, cpus, partition))
    /\ pc' = "cb_done"
    /\ UNCHANGED <<cpus, tasksRun, partition, caller, submissions, lastPoll,
                   listing, err>>
    /\ UNCHANGED <<cfgv, schedv, collectv, trainv>>

SpecTemplate == InitTemplate /\ [][CreateBenchmark]_vars

\* C4 as stated, for a template that holds each placeholder once, a positive
\* CPU count and the partitions the driver passes: the script holds neither
\* placeholder and holds the CPU count and the partition once each.
C4_ExactlyOnce ==
    (/\ pc = "cb_done"
     /\ cpus > 0
     /\ partition \in {Shared, Compute}
     /\ Occurrences(template.text, PH_CPUS) = 1
     /\ Occurrences(template.text, PH_PARTITION) = 1)
      => /\ ~Contains(scriptfiles[cpus], PH_CPUS)
         /\ ~Contains(scriptfiles[cpus], PH_PARTITION)
         /\ Occurrences(scriptfiles[cpus], Str(cpus)) = 1
         /\ Occurrences(scriptfiles[cpus], partition) = 1

\* C4 (amended): for the partitions the driver passes, 'shared' and 'compute',
\* the script holds neither placeholder, and holds the CPU count and the
\* partition at least once for each placeholder of its kind in the template.
C4_PlaceholdersReplaced ==
    (pc = "cb_done" /\ partition \in {Shared, Compute})
      => /\ ~Contains(scriptfiles[cpus], PH_CPUS)
         /\ ~Contains(scriptfiles[cpus], PH_PARTITION)
         /\ Occurrences(scriptfiles[cpus], Str(cpus))
              >= Occurrences(template.text, PH_CPUS)
         /\ Occurrences(scriptfiles[cpus], partition)
              >= Occurrences(template.text, PH_PARTITION)

\* a template with both placeholders was filled in for 32 CPUs on 'compute'
C4_Witness ==
    /\ pc = "cb_done"
    /\ cpus = 32
    /\ partition = Compute
    /\ Occurrences(template.text, PH_CPUS) = 1
    /\ Occurrences(template.text, PH_PARTITION) = 1
    /\ Occurrences(scriptfiles[cpus], Str(32)) = 1
    /\ Occurrences(scriptfiles[cpus], Compute) = 1

----------------------------------------------------------------------------
(* tf2-train-cnn-cifar-v1.py: two runs on the same machine whose arguments   *)
(* differ at most in --save_model (SpecTrain).                               *)

Runs == {1, 2}

\* parameters of def create_model(classes, args)
CreateModelParams == 2

\* arguments of the call create_model(classes)
CreateModelCallArgs == 1

\* lines 72-82 of create_model: the accelerator the model is placed on
create_model(classes, a, devices) ==
    LET auto == IF "GPU" \in devices THEN "GPU"
                ELSE IF "HPU" \in devices THEN "HPU"
                ELSE IF "TPU" \in devices THEN "TPU"
                ELSE "CPU"
        upper == [cpu |-> "CPU", gpu |-> "GPU", hpu |-> "HPU", tpu |-> "TPU"]
    IN  IF a.accelerator = "auto" THEN auto ELSE upper[a.accelerator]

\* the save step choosing by --save_model, as its help text says
SavedFileBySaveModel(a) ==
    IF a.save_model = "onnx" THEN "model_tf.onnx" ELSE "model_tf.pt"

\* lines 157-171: the file the model is saved to
SavedFile(a) ==
    IF a.model_file = "tf" THEN "model_tf"
    ELSE IF a.model_file = "h5" THEN "model_tf.h5"
    ELSE IF a.model_file = "keras" THEN "model_tf.keras"
    ELSE "model_tf.onnx"

\* line 153
ModelDir(job_id) == <<"saved_model_tf", job_id>>

benchv == <<pc, max_cpus_per_task, cpus, tasksRun, partition, caller, template,
            scriptfiles, env, process, submissions, jobs, queue, files,
            lastPoll, listing, scriptlist, idx, scanv, benchmarkdict, outfile, err>>

ModelFiles == {"", "tf", "h5", "keras", "m.keras"}

ArgSets ==
    [classes : {10, 100},
     precision : {"bf16", "fp16", "fp32", "fp64"},
     epochs : {42},
     batch_size : {256},
     accelerator : {"auto", "cpu", "gpu", "hpu", "tpu"},
     num_workers : {0},
     model_file : ModelFiles,
     save_model : {"onnx", "pt"}]

InitTrain ==
    /\ pc = "idle"
    /\ max_cpus_per_task = 0
    /\ cpus = 0
    /\ partition = <<>>
    /\ caller = "main"
    /\ template = Missing
    /\ env = EnvNames
    /\ queue = {}
    /\ listing = <<>>
    /\ tasksRun = 0
    /\ scriptfiles = <<>>
    /\ process = "none"
    /\ submissions = <<>>
    /\ jobs = <<>>
    /\ files = {}
    /\ lastPoll = -1
    /\ scriptlist = <<>>
    /\ idx = 0
    /\ prefixed = <<>>
    /\ nread = 0
    /\ seen = {}
    /\ realnum = -1
    /\ sysnum = -1
    /\ usernum = -1
    /\ benchmarkdict = <<>>
    /\ outfile = <<>>
    /\ err = "none"
    /\ tpc = [r \in Runs |-> "main"]
    /\ \E a \in ArgSets, s2 \in {"onnx", "pt"} :
         targs = [r \in Runs |-> IF r = 1 THEN a ELSE [a EXCEPT !.save_model = s2]]
    /\ tenv \in [dataset_ok : BOOLEAN,
                 loadable : BOOLEAN,
                 devices : {{}, {"GPU"}, {"HPU", "TPU"}},
                 job_id : {"local", "4711"}]
    /\ model = [r \in Runs |-> "none"]
    /\ artifact = [r \in Runs |-> <<>>]

\* lines 113-126
TrainStart(r) ==
    /\ tpc[r] = "main"
    /\ tpc' = [tpc EXCEPT ![r] = "datasets"]
    /\ UNCHANGED <<targs, tenv, model, artifact, benchv>>

\* lines 129-133: create_datasets with its assertions on the shapes
CreateDatasets(r) ==
    /\ tpc[r] = "datasets"
    /\ tpc' = [tpc EXCEPT ![r] = IF tenv.dataset_ok THEN "model" ELSE "AssertionError"]
    /\ UNCHANGED <<targs, tenv, model, artifact, benchv>>

\* lines 136-137: the pre-existing model is loaded
LoadModel(r) ==
    /\ tpc[r] = "model"
    /\ targs[r].model_file # ""
    /\ IF tenv.loadable
       THEN /\ model' = [model EXCEPT ![r] = "loaded"]
            /\ tpc' = [tpc EXCEPT ![r] = "fit"]
       ELSE /\ tpc' = [tpc EXCEPT ![r] = "OSError"]
            /\ UNCHANGED model
    /\ UNCHANGED <<targs, tenv, artifact, benchv>>

\* lines 138-139: the call create_model(classes) of def create_model(classes, args)
CallCreateModel(r) ==
    /\ tpc[r] = "model"
    /\ targs[r].model_file = ""
    /\ IF CreateModelCallArgs # CreateModelParams
       THEN /\ tpc' = [tpc EXCEPT ![r] = "TypeError"]
            /\ UNCHANGED <<targs, model>>
       ELSE /\ targs' = [targs EXCEPT ![r].accelerator =
                           create_model(targs[r].classes, targs[r], tenv.devices)]
            /\ model' = [model EXCEPT ![r] = "built"]
            /\ tpc' = [tpc EXCEPT ![r] = "fit"]
    /\ UNCHANGED <<tenv, artifact, benchv>>

\* lines 142-145: model.summary() and model.fit
Fit(r) ==
    /\ tpc[r] = "fit"
    /\ tpc' = [tpc EXCEPT ![r] = "evaluate"]
    /\ UNCHANGED <<targs, tenv, model, artifact, benchv>>

\* line 148: model.evaluate
Evaluate(r) ==
    /\ tpc[r] = "evaluate"
    /\ tpc' = [tpc EXCEPT ![r] = "save"]
    /\ UNCHANGED <<targs, tenv, model, artifact, benchv>>

\* lines 153-174: the model is saved
Save(r) ==
    /\ tpc[r] = "save"
    /\ artifact' = [artifact EXCEPT ![r] =
                      Append(ModelDir(tenv.job_id), SavedFile(targs[r]))]
    /\ tpc' = [tpc EXCEPT ![r] = "done"]
    /\ UNCHANGED <<targs, tenv, model, benchv>>

NextTrain ==
    \E r \in Runs :
      \/ TrainStart(r)
      \/ CreateDatasets(r)
      \/ LoadModel(r)
      \/ CallCreateModel(r)
      \/ Fit(r)
      \/ Evaluate(r)
      \/ Save(r)

SpecTrain == InitTrain /\ [][NextTrain]_vars

Raised == {"AssertionError", "OSError", "TypeError"}

\* C7: a run whose datasets load, and whose model file loads when one is
\* given, goes through datasets, model, fit, evaluate and save without raising;
\* in particular the run with the default empty model_file does.
C7_RunsWithoutError ==
    \A r \in Runs :
      (tenv.dataset_ok /\ (targs[r].model_file # "" => tenv.loadable))
        => tpc[r] \notin Raised

====
